---- MODULE Spec2Model ----
(***************************************************************************)
(* Model of programTwo/kernel.cu: a sieve of Eratosthenes whose marking    *)
(* runs as one CUDA thread block.  The host side (main, genPrimesOnDevice, *)
(* checkDevice) is one sequential process whose position is hpc; every     *)
(* lane (thread) of the launch is a process whose position is lpc[t].      *)
(* A lane takes one step per access to the device array; the arithmetic    *)
(* and the loop tests between two accesses belong to the step of the       *)
(* access that precedes them.                                              *)
(***************************************************************************)
EXTENDS Integers, Sequences, FiniteSets

VARIABLES
    max,         \* the bound handed to genPrimesOnDevice (maxPrime in main)
    primes,      \* the host buffer of main, max flags
    hpc,         \* position of the host thread
    blockSize,   \* genPrimesOnDevice's blockSize (0: not assigned yet)
    d_Primes,    \* defined contents of the device array (empty: none)
    devAlloc,    \* d_Primes points to a live device allocation
    mallocs,     \* number of successful cudaMalloc calls
    frees,       \* number of device allocations released by cudaFree
    launched,    \* the kernel launch was accepted
    lpc,         \* position of every lane of the launch
    lj,          \* loop variable j of every lane
    guardRead,   \* per lane, the values it has read in primes[index]
    written,     \* per lane, the indices it has written
    oob,         \* indices accessed outside the allocation
    fault,       \* the kernel was killed by a runtime fault (sticky error)
    probeFailed, \* checkDevice reported a failure
    allocFailed, \* cudaMalloc failed
    launchFailed,\* the launch was rejected
    copied,      \* cudaMemcpy has copied the device array into primes
    output,      \* the lines of indices main has printed
    exitStatus,  \* the status the process ended with (empty: still running)
    call,        \* which call of genPrimesOnDevice this is (1 or 2)
    first        \* the host flags the first call returned (empty: none yet)

vars == <<max, primes, hpc, blockSize, d_Primes, devAlloc, mallocs, frees,
          launched, lpc, lj, guardRead, written, oob, fault, probeFailed,
          allocFailed, launchFailed, copied, output, exitStatus, call,
          first>>

----------------------------------------------------------------------------
(* Bounds and program constants                                            *)

\* Every bound 0..MaxN is run with one step per array access.
MaxN == 26
MaxFairN == 17

\* maxPrime of main; its loops are taken one whole loop per step.
DriverMax == 102

EXIT_FAILURE == 1
EXIT_SUCCESS == 0
SmallBlock == 16
LargeBlock == 32
FermiMajor == 2

Bounds == 0..MaxN
FairBounds == 0..MaxFairN
DriverBounds == {2, 3, DriverMax}
Majors == {1, 2}

----------------------------------------------------------------------------
(* Pure helpers                                                            *)

\* sqrt() of the bound truncated to an integer (uint64_t maxRoot).
maxRoot(n) == CHOOSE r \in 0..n : r * r <= n /\ (r + 1) * (r + 1) > n

\* Lanes of the launch <<<dimGrid(1), dimBlock(maxRoot,1,1)>>>: threadIdx.x.
Lanes(n) == 0..(maxRoot(n) - 1)

\* index = blockIdx.x * blockDim.x + threadIdx.x, with blockIdx.x = 0.
index(t, n) == 0 * maxRoot(n) + t

\* The role test with || in place of &&: threadIdx.y is 0 in every lane.
DesignatedEitherZero(t) == t = 0 \/ 0 = 0

\* threadIdx.x == 0 && threadIdx.y == 0
Designated(t) == t = 0

\* Mark as a toggle of the flag (primes[j] ^= 1).
MarkToggles(old) == 1 - old

\* The value a lane stores in a flag.
Mark(old) == 1

\* for (int j = 2 * 2; ...; j += 2)
EvenStep == 2

\* EvenStart with the even walk begun at 2 itself.
EvenStartAtTwo == EvenStep

EvenStart == 2 * 2

\* MarkStart with the marking walk begun at the lane's own index.
MarkStartAtIndex(d) == d

\* A marking walk that starts one step past the square.
MarkStartPastSquare(d) == d * d + d

\* for (int j = index * index; ...; j += index)
MarkStart(d) == d * d
MarkStep(d) == d

\* The guard without its last test: index < maxRoot && primes[index] == 0
GuardPassesAtOne(d, flag, n) == d < maxRoot(n) /\ flag = 0

\* index < maxRoot && primes[index] == 0 && index > 1
GuardPasses(d, flag, n) == d < maxRoot(n) /\ flag = 0 /\ d > 1

\* The loops of the driver's bound are taken in one step each: no lane reads
\* inside a loop and every write stores the same value.
WholeLoop(n) == n > MaxN

\* Indices one step of a loop writes, from j on.
StepIndices(j, step, n) ==
    IF WholeLoop(n) THEN {i \in j..(n - 1) : (i - j) % step = 0} ELSE {j}

\* primes[i] = 1 for every i of js
WriteFlags(arr, js) ==
    [i \in DOMAIN arr |-> IF i \in js THEN Mark(arr[i]) ELSE arr[i]]

\* A loop step that leaves j where it was.
NextJStuck(j, step, n) == j

\* Position after a loop step that wrote js: the loop test j < max.
NextJ(j, step, n) == IF WholeLoop(n) THEN n ELSE j + step

\* main's display loop over i = from..n-1: the i with buf[i] == 0 in the
\* order the loop prints them.  The range is walked as two consecutive
\* halves, which keeps the recursion shallow.
RECURSIVE Scan(_, _, _)
Scan(buf, from, n) ==
    IF from >= n THEN <<>>
    ELSE IF from + 1 = n THEN (IF buf[from] = 0 THEN <<from>> ELSE <<>>)
    ELSE LET mid == (from + n) \div 2
         IN Scan(buf, from, mid) \o Scan(buf, mid, n)

\* ProbeRejected with the width compared against the wrong status.
ProbeRejectedOnSuccess(bs) == bs = EXIT_SUCCESS

\* blockSize == EXIT_FAILURE
ProbeRejected(bs) == bs = EXIT_FAILURE

\* DeviceIdle for a wait that returns at once.
DeviceIdleNoWait == TRUE

\* cudaDeviceSynchronize returns: no lane of the launch is still running.
DeviceIdle == \A t \in DOMAIN lpc : lpc[t] \in {"none", "done", "aborted"}

----------------------------------------------------------------------------
(* Initial state: main has allocated and zeroed its buffer.                *)

Start(ns) ==
    /\ max \in ns
    /\ primes = [i \in 0..(max - 1) |-> 0]
    /\ hpc = "getDevice"
    /\ blockSize = 0
    /\ d_Primes = [i \in {} |-> 0]
    /\ devAlloc = FALSE
    /\ mallocs = 0
    /\ frees = 0
    /\ launched = FALSE
    /\ lpc = [t \in Lanes(max) |-> "none"]
    /\ lj = [t \in Lanes(max) |-> 0]
    /\ guardRead = [t \in Lanes(max) |-> <<>>]
    /\ written = [t \in Lanes(max) |-> {}]
    /\ oob = {}
    /\ fault = FALSE
    /\ probeFailed = FALSE
    /\ allocFailed = FALSE
    /\ launchFailed = FALSE
    /\ copied = FALSE
    /\ output = <<>>
    /\ exitStatus = <<>>
    /\ call = 1
    /\ first = <<>>

Init == Start(Bounds)

----------------------------------------------------------------------------
(* Host: checkDevice                                                       *)

\* cudaGetDevice; on an error the process exits with EXIT_FAILURE.
GetDevice ==
    /\ hpc = "getDevice"
    /\ \E ok \in BOOLEAN :
         IF ok
         THEN /\ hpc' = "getProps"
              /\ UNCHANGED <<probeFailed, exitStatus>>
         ELSE /\ hpc' = "exited"
              /\ probeFailed' = TRUE
              /\ exitStatus' = <<EXIT_FAILURE>>
    /\ UNCHANGED <<call, first, max, primes, blockSize, d_Primes, devAlloc, mallocs, frees,
                   launched, lpc, lj, guardRead, written, oob, fault,
                   allocFailed, launchFailed, copied, output>>

\* checkDevice whose width for a device older than Fermi is 1, the value
\* of EXIT_FAILURE.
checkDeviceNarrow(ok, prohibited, major) ==
    IF prohibited \/ ~ok THEN EXIT_FAILURE
    ELSE IF major < FermiMajor THEN EXIT_FAILURE ELSE LargeBlock

\* What checkDevice returns once cudaGetDevice has succeeded.
checkDevice(ok, prohibited, major) ==
    IF prohibited \/ ~ok THEN EXIT_FAILURE
    ELSE IF major < FermiMajor THEN SmallBlock ELSE LargeBlock

\* cudaGetDeviceProperties and the rest of checkDevice, then the test of
\* blockSize in genPrimesOnDevice.  computeMode is indeterminate when the
\* query failed, so it is chosen freely in that case as well.
GetDeviceProperties ==
    /\ hpc = "getProps"
    /\ \E ok \in BOOLEAN, prohibited \in BOOLEAN, major \in Majors :
         LET bs == checkDevice(ok, prohibited, major)
         IN /\ blockSize' = bs
            /\ probeFailed' = (prohibited \/ ~ok)
            /\ hpc' = IF ProbeRejected(bs) THEN "scan" ELSE "malloc"
    /\ UNCHANGED <<call, first, max, primes, d_Primes, devAlloc, mallocs, frees, launched,
                   lpc, lj, guardRead, written, oob, fault, allocFailed,
                   launchFailed, copied, output, exitStatus>>

----------------------------------------------------------------------------
(* Host: genPrimesOnDevice                                                 *)

\* cudaMalloc(&d_Primes, sizePrimes); its result is not looked at.  The
\* bytes of a fresh allocation are indeterminate and nothing reads them
\* before the memset, so d_Primes has no defined contents yet.
Malloc ==
    /\ hpc = "malloc"
    /\ \E ok \in BOOLEAN :
         IF ok
         THEN /\ devAlloc' = TRUE
              /\ mallocs' = mallocs + 1
              /\ UNCHANGED allocFailed
         ELSE /\ allocFailed' = TRUE
              /\ UNCHANGED <<devAlloc, mallocs>>
    /\ hpc' = "memset"
    /\ UNCHANGED <<call, first, max, primes, blockSize, d_Primes, frees, launched, lpc, lj, guardRead,
                   written, oob, fault, probeFailed, launchFailed, copied,
                   output, exitStatus>>

\* cudaMemset(d_Primes, 0, sizePrimes) and cudaPeekAtLastError(), whose
\* result is dropped.  On a null d_Primes the memset fails and does nothing.
Memset ==
    /\ hpc = "memset"
    /\ d_Primes' = IF devAlloc THEN [i \in 0..(max - 1) |-> 0] ELSE d_Primes
    /\ hpc' = "launch"
    /\ UNCHANGED <<call, first, max, primes, blockSize, devAlloc, mallocs, frees, launched,
                   lpc, lj, guardRead, written, oob, fault, probeFailed,
                   allocFailed, launchFailed, copied, output, exitStatus>>

\* First position of a lane: the designated lane starts at its write of
\* primes[0], every other lane at its guard.
LaneEntry(t) == IF Designated(t) THEN "w0" ELSE "guard"

\* sieveOfEratosthenesCUDA<<<dimGrid, dimBlock>>>(d_Primes, max) and the
\* cudaPeekAtLastError() after it, whose result is dropped.  The launch is
\* rejected for an empty block, or by the runtime.
Launch ==
    /\ hpc = "launch"
    /\ \E ok \in BOOLEAN :
         IF ok /\ maxRoot(max) >= 1
         THEN /\ launched' = TRUE
              /\ lpc' = [t \in Lanes(max) |-> LaneEntry(t)]
              /\ UNCHANGED launchFailed
         ELSE /\ launchFailed' = TRUE
              /\ UNCHANGED <<launched, lpc>>
    /\ hpc' = "sync"
    /\ UNCHANGED <<call, first, max, primes, blockSize, d_Primes, devAlloc, mallocs, frees,
                   lj, guardRead, written, oob, fault, probeFailed,
                   allocFailed, copied, output, exitStatus>>

\* cudaDeviceSynchronize(): blocks until the launch has completed.
Synchronize ==
    /\ hpc = "sync"
    /\ DeviceIdle
    /\ hpc' = "memcpy"
    /\ UNCHANGED <<call, first, max, primes, blockSize, d_Primes, devAlloc, mallocs, frees,
                   launched, lpc, lj, guardRead, written, oob, fault,
                   probeFailed, allocFailed, launchFailed, copied, output,
                   exitStatus>>

\* cudaMemcpy(primes, d_Primes, sizePrimes, cudaMemcpyDeviceToHost).  With a
\* null d_Primes or after a kernel fault the call fails and copies nothing.
Memcpy ==
    /\ hpc = "memcpy"
    /\ IF devAlloc /\ ~fault
       THEN /\ primes' = [i \in DOMAIN primes |-> d_Primes[i]]
            /\ copied' = TRUE
       ELSE UNCHANGED <<primes, copied>>
    /\ hpc' = "free"
    /\ UNCHANGED <<call, first, max, blockSize, d_Primes, devAlloc, mallocs, frees,
                   launched, lpc, lj, guardRead, written, oob, fault,
                   probeFailed, allocFailed, launchFailed, output, exitStatus>>

\* Free with the cudaFree call left out.
FreeLeftOut ==
    /\ hpc = "free"
    /\ hpc' = "scan"
    /\ UNCHANGED <<call, first, max, primes, blockSize, d_Primes, devAlloc, mallocs, frees,
                   launched, lpc, lj, guardRead, written, oob, fault,
                   probeFailed, allocFailed, launchFailed, copied, output,
                   exitStatus>>

\* cudaFree(d_Primes), then genPrimesOnDevice returns to main.  On a null
\* d_Primes the call does nothing; after a kernel fault it fails with the
\* error that stays with the context and releases nothing.
Free ==
    /\ hpc = "free"
    /\ IF devAlloc /\ ~fault
       THEN /\ devAlloc' = FALSE
            /\ frees' = frees + 1
            /\ d_Primes' = [i \in {} |-> 0]
       ELSE UNCHANGED <<devAlloc, frees, d_Primes>>
    /\ hpc' = "scan"
    /\ UNCHANGED <<call, first, max, primes, blockSize, mallocs, launched, lpc, lj,
                   guardRead, written, oob, fault, probeFailed, allocFailed,
                   launchFailed, copied, output, exitStatus>>

----------------------------------------------------------------------------
(* Host: main after genPrimesOnDevice has returned                         *)

\* The display loop, free(primes) and return 0.
Display ==
    /\ hpc = "scan"
    /\ output' = Append(output, Scan(primes, 0, max))
    /\ exitStatus' = <<EXIT_SUCCESS>>
    /\ hpc' = "exited"
    /\ UNCHANGED <<call, first, max, primes, blockSize, d_Primes, devAlloc, mallocs, frees,
                   launched, lpc, lj, guardRead, written, oob, fault,
                   probeFailed, allocFailed, launchFailed, copied>>

----------------------------------------------------------------------------
(* Device: the lanes of sieveOfEratosthenesCUDA                            *)

Active(t) == lpc[t] \in {"w0", "w1", "even", "guard", "mark"}

\* The index of the array the next step of lane t accesses.
NextAccess(t) ==
    CASE lpc[t] = "w0" -> 0
      [] lpc[t] = "w1" -> 1
      [] lpc[t] = "guard" -> index(t, max)
      [] OTHER -> lj[t]

\* The loop test taken as j <= max.
LoopPcInclusive(j, pc) == IF j <= max THEN pc ELSE "done"

\* Where a lane goes once its loop variable is j: the loop test j < max.
LoopPc(j, pc) == IF j < max THEN pc ELSE "done"

\* primes[0] = 1 by the designated lane.
DesignatedWrite0(t) ==
    /\ lpc[t] = "w0"
    /\ devAlloc
    /\ 0 \in DOMAIN d_Primes
    /\ d_Primes' = WriteFlags(d_Primes, {0})
    /\ written' = [written EXCEPT ![t] = @ \cup {0}]
    /\ lpc' = [lpc EXCEPT ![t] = "w1"]
    /\ UNCHANGED <<call, first, max, primes, hpc, blockSize, devAlloc, mallocs, frees,
                   launched, lj, guardRead, oob, fault, probeFailed,
                   allocFailed, launchFailed, copied, output, exitStatus>>

\* primes[1] = 1 by the designated lane, then the start of its loop.  When
\* the array has one element the write is outside it: it either lands in
\* memory that is no part of the array (here) or kills the kernel (LaneFault).
DesignatedWrite1(t) ==
    /\ lpc[t] = "w1"
    /\ devAlloc
    /\ IF 1 \in DOMAIN d_Primes
       THEN /\ d_Primes' = WriteFlags(d_Primes, {1})
            /\ UNCHANGED oob
       ELSE /\ oob' = oob \cup {1}
            /\ UNCHANGED d_Primes
    /\ written' = [written EXCEPT ![t] = @ \cup {1}]
    /\ lj' = [lj EXCEPT ![t] = EvenStart]
    /\ lpc' = [lpc EXCEPT ![t] = LoopPc(EvenStart, "even")]
    /\ UNCHANGED <<call, first, max, primes, hpc, blockSize, devAlloc, mallocs, frees,
                   launched, guardRead, fault, probeFailed, allocFailed,
                   launchFailed, copied, output, exitStatus>>

\* primes[j] = 1; j += 2 in the loop of the designated lane.
DesignatedEven(t) ==
    /\ lpc[t] = "even"
    /\ devAlloc
    /\ lj[t] \in DOMAIN d_Primes
    /\ LET js == StepIndices(lj[t], EvenStep, max)
           nj == NextJ(lj[t], EvenStep, max)
       IN /\ d_Primes' = WriteFlags(d_Primes, js)
          /\ written' = [written EXCEPT ![t] = @ \cup js]
          /\ lj' = [lj EXCEPT ![t] = nj]
          /\ lpc' = [lpc EXCEPT ![t] = LoopPc(nj, "even")]
    /\ UNCHANGED <<call, first, max, primes, hpc, blockSize, devAlloc, mallocs, frees,
                   launched, guardRead, oob, fault, probeFailed, allocFailed,
                   launchFailed, copied, output, exitStatus>>

\* The guard of a marker lane: primes[index] is read once, when
\* index < maxRoot holds, and the lane enters its loop when the guard passes.
MarkerGuard(t) ==
    /\ lpc[t] = "guard"
    /\ devAlloc
    /\ LET d == index(t, max)
       IN IF d < maxRoot(max)
          THEN /\ d \in DOMAIN d_Primes
               /\ guardRead' = [guardRead EXCEPT ![t] = Append(@, d_Primes[d])]
               /\ IF GuardPasses(d, d_Primes[d], max)
                  THEN /\ lj' = [lj EXCEPT ![t] = MarkStart(d)]
                       /\ lpc' = [lpc EXCEPT ![t] = LoopPc(MarkStart(d), "mark")]
                  ELSE /\ lpc' = [lpc EXCEPT ![t] = "done"]
                       /\ UNCHANGED lj
          ELSE /\ lpc' = [lpc EXCEPT ![t] = "done"]
               /\ UNCHANGED <<guardRead, lj>>
    /\ UNCHANGED <<call, first, max, primes, hpc, blockSize, d_Primes, devAlloc, mallocs,
                   frees, launched, written, oob, fault, probeFailed,
                   allocFailed, launchFailed, copied, output, exitStatus>>

\* primes[j] = 1; j += index in the loop of a marker lane.
MarkerMark(t) ==
    /\ lpc[t] = "mark"
    /\ devAlloc
    /\ lj[t] \in DOMAIN d_Primes
    /\ LET d == index(t, max)
           js == StepIndices(lj[t], MarkStep(d), max)
           nj == NextJ(lj[t], MarkStep(d), max)
       IN /\ d_Primes' = WriteFlags(d_Primes, js)
          /\ written' = [written EXCEPT ![t] = @ \cup js]
          /\ lj' = [lj EXCEPT ![t] = nj]
          /\ lpc' = [lpc EXCEPT ![t] = LoopPc(nj, "mark")]
    /\ UNCHANGED <<call, first, max, primes, hpc, blockSize, devAlloc, mallocs, frees,
                   launched, guardRead, oob, fault, probeFailed, allocFailed,
                   launchFailed, copied, output, exitStatus>>

\* An access through a null d_Primes, or outside the allocation, raises a
\* device fault: the kernel is killed and the error stays with the context.
LaneFault(t) ==
    /\ Active(t)
    /\ NextAccess(t) \notin DOMAIN d_Primes
    /\ fault' = TRUE
    /\ oob' = IF devAlloc THEN oob \cup {NextAccess(t)} ELSE oob
    /\ lpc' = [u \in DOMAIN lpc |-> IF Active(u) THEN "aborted" ELSE lpc[u]]
    /\ UNCHANGED <<call, first, max, primes, hpc, blockSize, d_Primes, devAlloc, mallocs,
                   frees, launched, lj, guardRead, written, probeFailed,
                   allocFailed, launchFailed, copied, output, exitStatus>>

----------------------------------------------------------------------------

Next ==
    \/ GetDevice
    \/ GetDeviceProperties
    \/ Malloc
    \/ Memset
    \/ Launch
    \/ Synchronize
    \/ Memcpy
    \/ Free
    \/ Display
    \/ \E t \in Lanes(max) : DesignatedWrite0(t)
    \/ \E t \in Lanes(max) : DesignatedWrite1(t)
    \/ \E t \in Lanes(max) : DesignatedEven(t)
    \/ \E t \in Lanes(max) : MarkerGuard(t)
    \/ \E t \in Lanes(max) : MarkerMark(t)
    \/ \E t \in Lanes(max) : LaneFault(t)

\* Every bound up to MaxN, one step per array access.
Spec == Init /\ [][Next]_vars

\* A caller that, once genPrimesOnDevice has returned without a failure,
\* calls it a second time with the same bound and a fresh zeroed buffer
\* instead of going on to the display.  The flags of the first call are
\* kept in first; the lanes of the first launch are gone.
CallAgain ==
    /\ hpc = "scan"
    /\ call = 1
    /\ ~probeFailed /\ ~allocFailed /\ ~launchFailed /\ ~fault
    /\ call' = 2
    /\ first' = primes
    /\ primes' = [i \in 0..(max - 1) |-> 0]
    /\ hpc' = "getDevice"
    /\ blockSize' = 0
    /\ launched' = FALSE
    /\ copied' = FALSE
    /\ lpc' = [t \in Lanes(max) |-> "none"]
    /\ lj' = [t \in Lanes(max) |-> 0]
    /\ guardRead' = [t \in Lanes(max) |-> <<>>]
    /\ written' = [t \in Lanes(max) |-> {}]
    /\ UNCHANGED <<max, d_Primes, devAlloc, mallocs, frees, oob, fault,
                   probeFailed, allocFailed, launchFailed, output, exitStatus>>

NextTwice == Next \/ CallAgain

\* One step of the host thread, which runs main and genPrimesOnDevice in
\* program order.
HostStep ==
    \/ GetDevice
    \/ GetDeviceProperties
    \/ Malloc
    \/ Memset
    \/ Launch
    \/ Synchronize
    \/ Memcpy
    \/ Free
    \/ Display

\* One step of lane t of the launch.
LaneStep(t) ==
    /\ t \in Lanes(max)
    /\ \/ DesignatedWrite0(t)
       \/ DesignatedWrite1(t)
       \/ DesignatedEven(t)
       \/ MarkerGuard(t)
       \/ MarkerMark(t)
       \/ LaneFault(t)

\* The lane numbers of the widest launch, that of the bound MaxN.
AllLanes == Lanes(MaxN)

\* The bounds of the runs checked for termination.
InitFair == Start(FairBounds)

\* The host thread keeps running, and the device scheduler keeps running
\* every lane of the one resident block: a lane that can step does step.
SpecFair ==
    /\ InitFair /\ [][Next]_vars
    /\ WF_vars(HostStep)
    /\ \A t \in AllLanes : WF_vars(LaneStep(t))

\* Two calls in sequence, every bound up to MaxN.
SpecTwice == Init /\ [][NextTwice]_vars

\* The driver: the bound of main and the two smallest valid bounds.
InitDriver == Start(DriverBounds)

SpecDriver == InitDriver /\ [][Next]_vars

----------------------------------------------------------------------------
(* Vocabulary of the properties                                            *)

IsPrime(n) == n >= 2 /\ \A d \in 2..(n - 1) : n % d # 0
IsComposite(n) == n >= 2 /\ ~IsPrime(n)

\* No step of the run has failed.
CleanRun == ~probeFailed /\ ~allocFailed /\ ~launchFailed /\ ~fault

\* Every lane of an accepted launch has run to its end, array still live.
KernelComplete ==
    /\ launched
    /\ devAlloc
    /\ ~fault
    /\ \A t \in DOMAIN lpc : lpc[t] = "done"

\* The indices whose flag is 0.
ZeroSet(buf) == {i \in DOMAIN buf : buf[i] = 0}

\* The increasing sequence of the elements of a set of numbers.
RECURSIVE Increasing(_)
Increasing(S) ==
    IF S = {} THEN <<>>
    ELSE LET m == CHOOSE x \in S : \A y \in S : y <= x
         IN Append(Increasing(S \ {m}), m)

\* What one lane does to the array when nothing else runs during it.
LaneAlone(arr, t, n) ==
    IF Designated(t)
    THEN WriteFlags(arr, {0, 1} \cup
             {j \in EvenStart..(n - 1) : (j - EvenStart) % EvenStep = 0})
    ELSE LET d == index(t, n)
         IN IF GuardPasses(d, arr[d], n)
            THEN WriteFlags(arr, {j \in MarkStart(d)..(n - 1) :
                                    (j - MarkStart(d)) % MarkStep(d) = 0})
            ELSE arr

\* The array after the lanes t, t+1, ... have run one after the other.
RECURSIVE OneByOne(_, _, _)
OneByOne(arr, t, n) ==
    IF t >= maxRoot(n) THEN arr ELSE OneByOne(LaneAlone(arr, t, n), t + 1, n)

----------------------------------------------------------------------------
(* Properties                                                              *)

\* C1: for every bound max >= 2, once a run without failures has ended, the
\* host flag of i is 0 exactly when i is prime, and main has printed exactly
\* the primes below max in increasing order.
C1_ExactlyThePrimes ==
    (max >= 2 /\ CleanRun /\ hpc = "exited") =>
        /\ \A i \in DOMAIN primes : (primes[i] = 0) <=> IsPrime(i)
        /\ output = <<Increasing({i \in 0..(max - 1) : IsPrime(i)})>>

\* The primes below the bound of main.
PrimesBelow102 ==
    {2, 3, 5, 7, 11, 13, 17, 19, 23, 29, 31, 37, 41, 43, 47, 53, 59, 61, 67,
     71, 73, 79, 83, 89, 97, 101}

\* The set of zero flags the boundary cases must end with.
BoundaryZeroSet == IF max = 2 THEN {} ELSE IF max = 3 THEN {2} ELSE PrimesBelow102

\* C2: for the bounds 2, 3 and 102 the indices with flag 0 are {}, {2} and
\* the 26 primes below 102, whatever the interleaving of the lanes: in the
\* device array once every lane has finished, and in the host buffer and
\* main's output once copied.
C2_BoundaryResults ==
    (max \in DriverBounds) =>
        /\ KernelComplete => ZeroSet(d_Primes) = BoundaryZeroSet
        /\ (CleanRun /\ copied) => ZeroSet(primes) = BoundaryZeroSet
        /\ (CleanRun /\ hpc = "exited") => output = <<Increasing(BoundaryZeroSet)>>

\* C2 witness: the run of main's own bound has ended without a failure.
C2_DriverRunEnded ==
    max = DriverMax /\ CleanRun /\ copied /\ hpc = "exited" /\ Len(output) = 1

\* C3: for a bound max >= 2 the array the lanes leave behind is the one the
\* lanes produce when run one after the other in index order, whatever the
\* interleaving was and whatever each marker lane read at its guard.
C3_RaceIndependent ==
    (max >= 2) =>
        /\ KernelComplete =>
             d_Primes = OneByOne([i \in 0..(max - 1) |-> 0], 0, max)
        /\ (CleanRun /\ copied) =>
             primes = OneByOne([i \in 0..(max - 1) |-> 0], 0, max)

\* C3 witness: the launch has completed and a marker lane (index > 1) had
\* read 0 in a flag that another lane marked (it read before that lane's
\* write, where the lanes run one by one read 1) and has marked on it.
C3_StaleReadCompleted ==
    /\ max >= 2
    /\ KernelComplete
    /\ \E t \in DOMAIN lpc :
         /\ index(t, max) > 1
         /\ written[t] # {}
         /\ guardRead[t] = <<0>>
         /\ d_Primes[index(t, max)] = 1

\* C4: for a bound max >= 2 the designated lane has written only 0, 1 and
\* even indices >= 4, a marker lane of index d only multiples k*d with
\* k >= d >= 2, so nothing written is prime, and the flag of every prime
\* below max is 0 in every state of the kernel.
C4_NoPrimeMarked ==
    (max >= 2) =>
        /\ \A t \in DOMAIN written : \A j \in written[t] :
             /\ j \in {0, 1} \/ IsComposite(j)
             /\ Designated(t) => j \in {0, 1} \/ (j >= 4 /\ j % 2 = 0)
             /\ ~Designated(t) =>
                  /\ index(t, max) >= 2
                  /\ j % index(t, max) = 0
                  /\ j \div index(t, max) >= index(t, max)
        /\ \A p \in DOMAIN d_Primes : IsPrime(p) => d_Primes[p] = 0

\* C4 witness: a marker lane of composite index has marked (it read 0 in
\* its own flag although that index is composite).
C4_CompositeLaneMarked ==
    /\ max >= 2
    /\ \E t \in DOMAIN written :
         /\ ~Designated(t)
         /\ IsComposite(index(t, max))
         /\ written[t] # {}

\* C5: while the kernel executes, every change of a flag sets it to 1, and
\* a flag that is 1 is still 1 after every step.
C5_WriteMonotone ==
    [][(launched /\ hpc = "sync") =>
         \A i \in DOMAIN d_Primes :
            /\ i \in DOMAIN d_Primes'
            /\ d_Primes[i] = 1 => d_Primes'[i] = 1
            /\ d_Primes'[i] # d_Primes[i] => d_Primes'[i] = 1]_vars

\* C5 witness: two lanes have written the same index while the kernel runs,
\* and its flag is 1.
C5_OverlappingWrites ==
    /\ launched
    /\ hpc = "sync"
    /\ \E t, u \in DOMAIN written :
         /\ t # u
         /\ \E i \in written[t] \cap written[u] :
              i \in DOMAIN d_Primes /\ d_Primes[i] = 1

\* C6: when checkDevice reports the device unavailable (for a valid bound),
\* the process ends with a non-zero status and main prints no line of primes.
C6_ProbeFailureAborts ==
    (max >= 2 /\ probeFailed) =>
        /\ output = <<>>
        /\ exitStatus # <<EXIT_SUCCESS>>

\* C7: when the capability query fails, genPrimesOnDevice goes no further:
\* nothing is allocated, set, launched, copied or freed, no lane runs and
\* the host buffer keeps its zeros.
C7_ProbeFailureStopsEarly ==
    probeFailed =>
        /\ hpc \in {"scan", "exited"}
        /\ mallocs = 0 /\ frees = 0
        /\ ~devAlloc /\ ~launched /\ ~copied
        /\ d_Primes = [i \in {} |-> 0]
        /\ \A t \in DOMAIN lpc : lpc[t] = "none" /\ written[t] = {}
        /\ \A i \in DOMAIN primes : primes[i] = 0

\* C7 witness: genPrimesOnDevice has returned to main on the failed probe.
C7_ReturnedOnFailedProbe ==
    max >= 2 /\ probeFailed /\ blockSize = EXIT_FAILURE /\ hpc = "scan"

\* C8: for a bound below 2 the call is rejected before the device is
\* touched: no device memory is allocated, no kernel is launched, no lane
\* writes or faults, and no line of results is printed by a run without a
\* device failure.
C8_InvalidBoundRejected ==
    (max < 2) =>
        /\ mallocs = 0
        /\ ~launched
        /\ \A t \in DOMAIN written : written[t] = {}
        /\ oob = {}
        /\ ~fault
        /\ CleanRun => output = <<>>

\* C9: after a failed allocation, a rejected launch or a kernel fault (for
\* a valid bound) the device array is not copied into the host buffer and main reports no
\* flags.
C9_FailureAborts ==
    (max >= 2 /\ (allocFailed \/ launchFailed \/ fault)) =>
        /\ ~copied
        /\ output = <<>>

\* C10: the host buffer holds copied flags only when no lane has a pending
\* read or write, and then it holds every write of every lane.
C10_CompletionBarrier ==
    /\ hpc \in {"memcpy", "free", "scan", "exited"} =>
         \A t \in DOMAIN lpc : ~Active(t)
    /\ copied =>
         /\ \A t \in DOMAIN lpc : ~Active(t)
         /\ \A t \in DOMAIN written : \A j \in written[t] :
              j \in DOMAIN primes => primes[j] = 1

\* C10 witness: the flags have been copied after a launch in which the
\* designated lane and a marker lane wrote.
C10_CopiedAfterLaunch ==
    /\ max >= 2
    /\ copied
    /\ launched
    /\ \E t, u \in DOMAIN written :
         Designated(t) /\ ~Designated(u) /\ written[t] # {} /\ written[u] # {}

\* C11: a call with a valid bound that is past the probe holds at most one
\* device array, exactly one once cudaMalloc has succeeded, of max zeroed
\* flags when the kernel is launched; the array is released once, after the
\* copy-back, nothing is outstanding when genPrimesOnDevice has returned,
\* and no lane runs after the release.
C11_DeviceMemoryLifecycle ==
    (max >= 2) =>
        /\ mallocs <= 1 /\ frees <= mallocs
        /\ devAlloc <=> (mallocs = 1 /\ frees = 0)
        /\ (hpc \in {"memset", "launch", "sync", "memcpy", "free"}
              /\ ~allocFailed) => (mallocs = 1 /\ devAlloc)
        /\ (hpc = "launch" /\ devAlloc) =>
              d_Primes = [i \in 0..(max - 1) |-> 0]
        /\ (hpc \in {"sync", "memcpy", "free"} /\ devAlloc) =>
              DOMAIN d_Primes = 0..(max - 1)
        /\ (hpc \in {"scan", "exited"}) =>
              /\ ~devAlloc
              /\ frees = mallocs
              /\ \A t \in DOMAIN lpc : ~Active(t)
        /\ (frees = 1 /\ ~launchFailed) => (copied /\ launched)
        /\ (frees = 1) => hpc \in {"scan", "exited"}

\* C11 witness: genPrimesOnDevice has returned after allocating, running the
\* kernel, copying back and releasing its one device array.
C11_AllocatedAndReleased ==
    /\ max >= 2
    /\ hpc = "scan"
    /\ mallocs = 1 /\ frees = 1
    /\ launched /\ copied
    /\ \E t \in DOMAIN written : written[t] # {}

\* C12: in the second of two calls with the same bound max >= 2 nothing of
\* the first is left (no allocation before cudaMalloc, a zeroed device
\* array at the launch), and without failures the second call returns the
\* flags of the first and main prints the sequence the first would give.
C12_SecondCallSameResult ==
    (max >= 2 /\ call = 2) =>
        /\ (hpc \in {"getDevice", "getProps", "malloc"}) =>
              (~devAlloc /\ d_Primes = [i \in {} |-> 0] /\ frees = mallocs)
        /\ (hpc = "launch" /\ devAlloc) =>
              d_Primes = [i \in 0..(max - 1) |-> 0]
        /\ (hpc = "launch") => \A t \in DOMAIN lpc : lpc[t] = "none"
        /\ (CleanRun /\ copied) => primes = first
        /\ (CleanRun /\ hpc = "exited") => output = <<Scan(first, 0, max)>>

\* C12 witness: the second call has returned its flags and main has ended,
\* with a marker lane of composite index having marked in the second call.
C12_SecondCallEnded ==
    /\ max >= 2
    /\ call = 2
    /\ CleanRun /\ copied
    /\ hpc = "exited"
    /\ \E t \in DOMAIN written :
         IsComposite(index(t, max)) /\ written[t] # {}

MultiplesFrom(d, n) ==
    {j \in MarkStart(d)..(n - 1) : (j - MarkStart(d)) % MarkStep(d) = 0}

\* C14: for every bound max >= 2 the launch holds, for every divisor
\* candidate d with 2 <= d <= maxRoot, a marker lane of index d, and that
\* lane, having read 0 in its flag and run to its end, has written the
\* multiples of d from d*d below max.
C14_DivisorsUpToRootCovered ==
    (max >= 2 /\ launched) =>
        \A d \in 2..maxRoot(max) :
            \E t \in DOMAIN lpc :
                /\ ~Designated(t)
                /\ index(t, max) = d
                /\ (lpc[t] = "done" /\ guardRead[t] = <<0>>) =>
                      written[t] = MultiplesFrom(d, max)

\* C15: for every bound max >= 2 the launch of maxRoot lanes has exactly one
\* designated lane, and every divisor candidate d with 1 < d < maxRoot is
\* the index of exactly one marker lane; only the designated lane writes
\* the flags of 0 and 1 and it reads no guard, and once the launch is over
\* every such candidate has had its guard read by its lane.
C15_LaneMappingOneToOne ==
    (max >= 2 /\ launched) =>
        /\ Cardinality(DOMAIN lpc) = maxRoot(max)
        /\ Cardinality({t \in DOMAIN lpc : Designated(t)}) = 1
        /\ \A d \in 2..(maxRoot(max) - 1) :
             Cardinality({t \in DOMAIN lpc :
                            ~Designated(t) /\ index(t, max) = d}) = 1
        /\ \A t \in DOMAIN lpc :
             /\ (written[t] \cap {0, 1} # {}) => Designated(t)
             /\ Designated(t) => guardRead[t] = <<>>
        /\ (\A t \in DOMAIN lpc : lpc[t] = "done") =>
             \A d \in 2..(maxRoot(max) - 1) :
                \E t \in DOMAIN lpc :
                    index(t, max) = d /\ Len(guardRead[t]) = 1

\* C15 witness: a launch with at least two divisor candidates below the root
\* has run to its end; the designated lane wrote the flag of 0 and the
\* marker lanes of indices 2 and 3 each read their guard.
C15_CandidatesEachHandled ==
    /\ max >= 2
    /\ maxRoot(max) >= 4
    /\ launched
    /\ \A t \in DOMAIN lpc : lpc[t] = "done"
    /\ \E t \in DOMAIN lpc : Designated(t) /\ 0 \in written[t]
    /\ \A d \in {2, 3} :
         \E t \in DOMAIN lpc : index(t, max) = d /\ Len(guardRead[t]) = 1

\* The lanes the guard keeps from marking: index at or above the root, index
\* at most 1, or a 1 read at the guard.
NoMarking(t, read) ==
    \/ index(t, max) >= maxRoot(max)
    \/ index(t, max) <= 1
    \/ read = <<1>>

\* C16: for every bound max >= 2, a non-designated lane whose index is at or
\* above the root, or at most 1, or that read 1 at its single guard read,
\* has written nothing and none of its steps changes the flag array; a lane
\* with 1 < index < maxRoot that read 0 writes only index*index,
\* index*index + index, ... below max, and all of them by its end.
C16_MarkerFrame ==
    /\ [](max >= 2 =>
            \A t \in DOMAIN lpc :
                ~Designated(t) =>
                    /\ Len(guardRead[t]) <= 1
                    /\ NoMarking(t, guardRead[t]) =>
                          (written[t] = {} /\ lpc[t] # "mark")
                    /\ (~NoMarking(t, guardRead[t]) /\ guardRead[t] = <<0>>) =>
                          /\ written[t] \subseteq
                                 MultiplesFrom(index(t, max), max)
                          /\ (lpc[t] = "done") =>
                                 written[t] = MultiplesFrom(index(t, max), max))
    /\ [][max >= 2 =>
            \A t \in DOMAIN lpc :
                (/\ ~Designated(t)
                 /\ lpc[t] \in {"guard", "mark"}
                 /\ (lpc'[t] # lpc[t] \/ lj'[t] # lj[t])
                 /\ NoMarking(t, guardRead'[t])) =>
                    d_Primes' = d_Primes]_vars

\* C16 witness: in one completed launch a marker lane read 1 at its guard
\* and wrote nothing, while another read 0 and wrote its multiples from its
\* square on.
C16_OneSkippedOneMarked ==
    /\ max >= 2
    /\ KernelComplete
    /\ \E t \in DOMAIN lpc :
         /\ ~Designated(t)
         /\ index(t, max) > 1
         /\ guardRead[t] = <<1>>
         /\ written[t] = {}
    /\ \E u \in DOMAIN lpc :
         /\ ~Designated(u)
         /\ guardRead[u] = <<0>>
         /\ written[u] = MultiplesFrom(index(u, max), max)
         /\ written[u] # {}

\* C17: for every bound max >= 2, with the host and every lane scheduled
\* fairly, every lane of a launch comes to its end, each loop step moving j
\* up by at least 2; the call returns, with the flags copied back when no
\* CUDA call failed; and it has not returned while a lane is still running.
C17_Terminates ==
    /\ [][max >= 2 =>
            \A t \in DOMAIN lpc :
                (lpc[t] \in {"even", "mark"} /\ lj'[t] # lj[t]) =>
                    lj'[t] >= lj[t] + 2]_vars
    /\ [](max >= 2 =>
            ((hpc \in {"scan", "exited"} /\ launched) =>
                 \A t \in DOMAIN lpc : ~Active(t)))
    /\ [](max >= 2 /\ launched =>
            <>(\A t \in DOMAIN lpc : lpc[t] \in {"done", "aborted"}))
    /\ [](max >= 2 /\ hpc = "sync" => <>(hpc = "memcpy"))
    /\ [](max >= 2 =>
            <>(hpc \in {"scan", "exited"} /\ (CleanRun => copied)))
    /\ [](max >= 2 => <>(hpc = "exited"))

\* C17 witness: the program has ended after a launch in which the designated
\* lane walked the even indices and a marker lane walked its multiples, and
\* the flags were copied back.
C17_ReturnedAfterLoops ==
    /\ max >= 2
    /\ hpc = "exited"
    /\ CleanRun /\ launched /\ copied
    /\ \A t \in DOMAIN lpc : lpc[t] = "done"
    /\ \E t \in DOMAIN lpc : Designated(t) /\ Cardinality(written[t]) > 3
    /\ \E t \in DOMAIN lpc : ~Designated(t) /\ Cardinality(written[t]) > 1

\* The smallest prime factor of c >= 2.
SmallestPrimeFactor(c) ==
    CHOOSE p \in 2..c : c % p = 0 /\ \A q \in 2..(p - 1) : c % q # 0

\* Flags buf of a bound n are complete up to the root: every composite that
\* is even or has a prime factor below the root is marked, and a composite
\* left unmarked can only be the square of the root.
CompleteBelowRoot(buf, n) ==
    /\ \A c \in 0..(n - 1) :
         (/\ IsComposite(c)
          /\ (c % 2 = 0 \/ SmallestPrimeFactor(c) < maxRoot(n))) =>
              buf[c] = 1
    /\ \A c \in 0..(n - 1) :
         (IsComposite(c) /\ buf[c] = 0) => c = maxRoot(n) * maxRoot(n)

\* C18: for every bound max >= 2 and every interleaving, once the launch is
\* complete (and in the flags copied back by a run without failures) every
\* composite below max that is even or whose smallest prime factor is below
\* maxRoot is marked, and the only composite that can be left unmarked is
\* maxRoot * maxRoot.
C18_CompleteBelowRoot ==
    (max >= 2) =>
        /\ KernelComplete => CompleteBelowRoot(d_Primes, max)
        /\ (CleanRun /\ copied) => CompleteBelowRoot(primes, max)

\* C18 witness: a run without failures has copied back flags in which a
\* composite with an odd prime factor below the root is marked and the
\* square of the root, a composite below max, is not.
C18_OnlyRootSquareLeft ==
    /\ max >= 2
    /\ CleanRun /\ copied
    /\ maxRoot(max) * maxRoot(max) < max
    /\ IsComposite(maxRoot(max) * maxRoot(max))
    /\ primes[maxRoot(max) * maxRoot(max)] = 0
    /\ \E c \in 0..(max - 1) :
         /\ IsComposite(c)
         /\ c % 2 = 1
         /\ SmallestPrimeFactor(c) < maxRoot(max)
         /\ primes[c] = 1

\* C19: for every bound max >= 2, in every reachable state, no lane has
\* accessed an index outside 0..max-1, every index a lane has written lies
\* in 0..max-1, and the index the next step of a running lane reads or
\* writes lies in 0..max-1; a kernel fault only comes from a failed
\* cudaMalloc, never from an index.
C19_InBounds ==
    (max >= 2) =>
        /\ oob = {}
        /\ fault => allocFailed
        /\ \A t \in DOMAIN lpc :
             /\ written[t] \subseteq 0..(max - 1)
             /\ Active(t) => NextAccess(t) \in 0..(max - 1)
             /\ (Active(t) /\ devAlloc) => NextAccess(t) \in DOMAIN d_Primes

\* C19 witness: in a completed launch the designated lane has walked the
\* even indices and a marker lane has read its guard and written the last
\* index of the array, max - 1.
C19_LastIndexWritten ==
    /\ max >= 2
    /\ KernelComplete
    /\ \E t \in DOMAIN lpc : Designated(t) /\ EvenStart \in written[t]
    /\ \E u \in DOMAIN lpc :
         /\ ~Designated(u)
         /\ guardRead[u] = <<0>>
         /\ (max - 1) \in written[u]

====
